---- MODULE Spec2Model ----
(***************************************************************************)
(* Model of the analysis orchestration of the citibank repository:         *)
(* DailyAnalyzer (daily_analysis.py), NewsAnalyzer (news_analysis.py) and  *)
(* the trigger endpoints and background tasks of app.py.                   *)
(***************************************************************************)
EXTENDS Integers, Sequences, FiniteSets, Bags, TLC

VARIABLES
    call,        \* the agent call under observation (send_to_lyzr_agent)
    trace,       \* what that call did so far: its POSTs and its sleeps
    stocks,      \* the stocks collection: a set of documents
    filings,     \* what fetch_stock_8k_filings returned, called on its own
    portfolios,  \* the portfolios collection: its documents in cursor order
    news,        \* the news collection: a set of documents
    now,         \* the clock, in hours
    daily_analysis,  \* the daily_analysis collection: a bag of documents
    news_analysis,   \* the news_analysis collection: a bag of documents
    runs,        \* the runs of run_daily_analysis and run_news_analysis
    window,      \* what fetch_last_24h_news returned, called on its own
    status_response  \* the last response of a status endpoint of app.py

callVars == <<call, trace>>
storeVars == <<stocks, portfolios, news, now>>
filingsVars == <<filings>>
resultVars == <<daily_analysis, news_analysis>>
runVars == <<runs>>
outVars == <<window, status_response>>
vars == <<call, trace, stocks, filings, portfolios, news, now, daily_analysis,
          news_analysis, runs, window, status_response>>

(***************************************************************************)
(* Python values, as far as the analyzers look at them.  Every value is a  *)
(* record of one shape: t is the type, s the text of a str or an int, m    *)
(* the items of a dict (a set of <<key, value>>) or of a list.             *)
(***************************************************************************)
PyNone == [t |-> "none", s |-> "", m |-> {}]
PyStr(x) == [t |-> "str", s |-> x, m |-> {}]
PyInt(x) == [t |-> "int", s |-> x, m |-> {}]
PyDict(items) == [t |-> "dict", s |-> "", m |-> items]
PyList(items) == [t |-> "list", s |-> "", m |-> items]

\* bool(v), as `if result:` evaluates it
Truthy(v) ==
    CASE v.t = "none" -> FALSE
      [] v.t = "str" -> v.s # ""
      [] v.t = "int" -> v.s # "0"
      [] OTHER -> v.m # {}

\* d.get(k, default) on a dict value
DictGet(d, k, default) ==
    IF \E p \in d.m : p[1] = k
    THEN (CHOOSE p \in d.m : p[1] = k)[2]
    ELSE default

Insights == PyList({<<"0", PyStr("x")>>})
EmptyList == PyList({})
InsightsDict == PyDict({<<"key_insights", Insights>>})
EmptyDict == PyDict({})
DecodeMessage == "Expecting value: line 1 column 1 (char 0)"
WrapperDict ==
    PyDict({<<"raw_response", PyStr("not json")>>, <<"parse_error", PyStr(DecodeMessage)>>})
\* a mapping with insights next to a raw text, and one whose insights are a number
MixedDict == PyDict({<<"key_insights", Insights>>, <<"raw_response", PyStr("y")>>})
UnsizedDict == PyDict({<<"key_insights", PyInt("7")>>})

\* The texts an agent reply is drawn from.
JsonTexts ==
    {"{\"key_insights\": [\"x\"]}", "{}", "[]", "null", "7", "\"hi\"", "not json", ""}

\* json.loads(text) on those texts: the value, or JSONDecodeError and its message.
JsonLoads(text) ==
    CASE text = "{\"key_insights\": [\"x\"]}" -> [ok |-> TRUE, v |-> InsightsDict, msg |-> ""]
      [] text = "{}" -> [ok |-> TRUE, v |-> EmptyDict, msg |-> ""]
      [] text = "[]" -> [ok |-> TRUE, v |-> EmptyList, msg |-> ""]
      [] text = "null" -> [ok |-> TRUE, v |-> PyNone, msg |-> ""]
      [] text = "7" -> [ok |-> TRUE, v |-> PyInt("7"), msg |-> ""]
      [] text = "\"hi\"" -> [ok |-> TRUE, v |-> PyStr("hi"), msg |-> ""]
      [] OTHER -> [ok |-> FALSE, v |-> PyNone, msg |-> DecodeMessage]

\* What the "response" field of a reply body can hold.
ReplyValues ==
    {PyStr(x) : x \in JsonTexts}
        \cup {InsightsDict, EmptyDict, WrapperDict, MixedDict, UnsizedDict,
              Insights, PyInt("7"), PyNone}

(***************************************************************************)
(* What one HTTP POST to the agent can come to.  kind: a response, a       *)
(* timeout (httpx.TimeoutException), a connection error                    *)
(* (httpx.ConnectError) or another exception of the transport.  body: the  *)
(* response body is a JSON object with a "response" field ("reply"), a     *)
(* JSON object without one ("absent"), JSON that is no object ("array"),   *)
(* or no JSON at all ("invalid").                                          *)
(***************************************************************************)
Statuses == {200, 201, 500}

Response(status, body, value) ==
    [kind |-> "response", status |-> status, body |-> body, value |-> value]
Failed(kind) == [kind |-> kind, status |-> 0, body |-> "", value |-> PyNone]

Replies ==
    {Failed(k) : k \in {"timeout", "connect_error", "other_error"}}
        \cup {Response(s, "invalid", PyNone) : s \in Statuses \ {200}}
        \cup {Response(200, b, PyNone) : b \in {"absent", "array", "invalid"}}
        \cup {Response(200, "reply", v) : v \in ReplyValues}

WellFormed(reply) == reply.kind = "response" /\ reply.body \in {"reply", "absent"}

max_retries == 3

Analyzers == {"daily", "news"}

\* result.get('response', '')
AiResponse(reply) == IF reply.body = "reply" THEN reply.value ELSE PyStr("")

IsSuccessStatus(status) == status = 200

TimeoutDelay == 10
ConnectErrorDelay == 5
StatusErrorDelay == 5

(***************************************************************************)
(* One iteration of `for attempt in range(max_retries)`, the inner try     *)
(* with its two except clauses: what it does after the POST came to reply. *)
(*   do = "return": the function returns v (at = the return statement)     *)
(*   do = "continue": sleep `delay` seconds, then the next attempt         *)
(*   do = "raise": the exception exc leaves the inner try                  *)
(***************************************************************************)
Returns(v, at) == [do |-> "return", v |-> v, at |-> at, delay |-> 0, exc |-> ""]
Continues(delay) == [do |-> "continue", v |-> PyNone, at |-> "", delay |-> delay, exc |-> ""]
Raises(exc) == [do |-> "raise", v |-> PyNone, at |-> "", delay |-> 0, exc |-> exc]

\* {"raw_response": ai_response, "parse_error": str(e)}
RawWrapper(ai_response, msg) ==
    PyDict({<<"raw_response", ai_response>>, <<"parse_error", PyStr(msg)>>})

\* ParseReply without its `except json.JSONDecodeError`
ParseReply_NoHandler(ai_response) ==
    IF ai_response.t = "str"
    THEN IF JsonLoads(ai_response.s).ok
         THEN Returns(JsonLoads(ai_response.s).v, "success")
         ELSE Raises("JSONDecodeError")
    ELSE Returns(ai_response, "success")

\* ParseReply with a reply that is no str wrapped like one that does not parse
ParseReply_WrapsMapping(ai_response) ==
    IF ai_response.t = "str"
    THEN IF JsonLoads(ai_response.s).ok
         THEN Returns(JsonLoads(ai_response.s).v, "success")
         ELSE Returns(RawWrapper(ai_response, JsonLoads(ai_response.s).msg), "success")
    ELSE Returns(RawWrapper(ai_response, DecodeMessage), "success")

\* news_analysis.py, the try around json.loads and its except json.JSONDecodeError
ParseReply(ai_response) ==
    IF ai_response.t = "str"
    THEN IF JsonLoads(ai_response.s).ok
         THEN Returns(JsonLoads(ai_response.s).v, "success")
         ELSE Returns(RawWrapper(ai_response, JsonLoads(ai_response.s).msg), "success")
    ELSE Returns(ai_response, "success")

\* the branch `if response.status_code == 200`, after response.json() gave a mapping
SuccessStep(analyzer, reply) ==
    IF analyzer = "news"
    THEN ParseReply(AiResponse(reply))
    ELSE Returns(AiResponse(reply), "success")

\* `if attempt < max_retries - 1`, the test of all three retry branches
HasRetry_OffByOne(attempt) == attempt <= max_retries - 1
HasRetry(attempt) == attempt < max_retries - 1

RetryOrRaise(attempt, delay, exc) ==
    IF HasRetry(attempt) THEN Continues(delay) ELSE Raises(exc)

\* Iteration with the 5 seconds of the other branches after a timeout too
Iteration_FlatDelay(analyzer, attempt, reply) ==
    CASE reply.kind = "timeout" -> RetryOrRaise(attempt, StatusErrorDelay, "TimeoutException")
      [] reply.kind = "connect_error" -> RetryOrRaise(attempt, ConnectErrorDelay, "ConnectError")
      [] reply.kind = "other_error" -> Raises("TransportError")
      [] OTHER ->
            IF IsSuccessStatus(reply.status)
            THEN CASE reply.body = "invalid" -> Raises("JSONDecodeError")
                   [] reply.body = "array" -> Raises("AttributeError")
                   [] OTHER -> SuccessStep(analyzer, reply)
            ELSE IF HasRetry(attempt)
                 THEN Continues(StatusErrorDelay)
                 ELSE Returns(PyNone, "status")

\* one iteration of the loop: the POST, and what follows its outcome
Iteration(analyzer, attempt, reply) ==
    CASE reply.kind = "timeout" -> RetryOrRaise(attempt, TimeoutDelay, "TimeoutException")
      [] reply.kind = "connect_error" -> RetryOrRaise(attempt, ConnectErrorDelay, "ConnectError")
      [] reply.kind = "other_error" -> Raises("TransportError")
      [] OTHER ->
            IF IsSuccessStatus(reply.status)
            THEN CASE reply.body = "invalid" -> Raises("JSONDecodeError")
                   [] reply.body = "array" -> Raises("AttributeError")
                   [] OTHER -> SuccessStep(analyzer, reply)
            ELSE IF HasRetry(attempt)
                 THEN Continues(StatusErrorDelay)
                 ELSE Returns(PyNone, "status")

\* send_to_lyzr_agent without its outer `except Exception`
OuterExcept_Absent(step) == step
\* the outer `except Exception`: whatever leaves the loop as an exception
OuterExcept(step) ==
    IF step.do = "raise" THEN Returns(PyNone, "except") ELSE step

\* send_to_lyzr_agent, one attempt: the loop iteration inside the outer try
SendStep(analyzer, attempt, reply) == OuterExcept(Iteration(analyzer, attempt, reply))

(***************************************************************************)
(* The state of one call of send_to_lyzr_agent.                            *)
(*   st: "post" (about to POST attempt number `attempt`, counted from 0),  *)
(*       "returned" (returned `result` at return statement `at`),          *)
(*       "raised" (an exception left the call)                             *)
(* The loop variable is gone when the call has ended: attempt is 0 then.   *)
(***************************************************************************)
NewCall == [st |-> "post", attempt |-> 0, result |-> PyNone, at |-> ""]

\* AfterStep with the attempt counter going back after a second failure
AfterStep_Restarts(c, step) ==
    CASE step.do = "continue" -> [c EXCEPT !.attempt = 1 - c.attempt]
      [] step.do = "return" ->
            [c EXCEPT !.st = "returned", !.attempt = 0, !.result = step.v, !.at = step.at]
      [] OTHER -> [c EXCEPT !.st = "raised", !.attempt = 0]

\* the call after one iteration of the loop
AfterStep(c, step) ==
    CASE step.do = "continue" -> [c EXCEPT !.attempt = c.attempt + 1]
      [] step.do = "return" ->
            [c EXCEPT !.st = "returned", !.attempt = 0, !.result = step.v, !.at = step.at]
      [] OTHER -> [c EXCEPT !.st = "raised", !.attempt = 0]

\* the events of one attempt, for the trace
PostEvent(attempt, reply) == [e |-> "post", attempt |-> attempt, secs |-> 0, reply |-> reply]
SleepEvent(attempt, secs) == [e |-> "sleep", attempt |-> attempt, secs |-> secs, reply |-> Failed("none")]

StepEvents(attempt, reply, step) ==
    IF step.do = "continue"
    THEN <<PostEvent(attempt, reply), SleepEvent(attempt, step.delay)>>
    ELSE <<PostEvent(attempt, reply)>>

----------------------------------------------------------------------------
(* fetch_stock_8k_filings *)

target_stocks == {"AAPL", "MSFT", "NFLX", "AMZN"}
\* the symbols of the dictionary the except branch builds
error_stocks == {"AAPL", "MSFT", "NTFL", "AMZN"}
NoFiling == "No 8-K filing available"
ErrorFiling == "Error fetching 8-K filing"

\* A document of the stocks collection: its "stock" field, and its "8_k"
\* field, "" when the document has none.
StockSymbols == target_stocks \cup {"TSLA"}
StockDocs == [stock : StockSymbols, filing : {"8-K text", ""}]

\* find({"stock": {"$in": target_stocks}})
FindTargetStocks(coll) == {d \in coll : d.stock \in target_stocks}

\* stock_doc.get("8_k", "No 8-K filing available")
Filing8k(d) == IF d.filing = "" THEN NoFiling ELSE d.filing

\* The try branch: the dictionaries the two loops can build.  Of several
\* documents of one symbol the last one in cursor order wins: any of them.
FilingsDicts(coll) ==
    {f \in [target_stocks -> {Filing8k(d) : d \in StockDocs} \cup {NoFiling}] :
        \A sym \in target_stocks :
            IF \E d \in FindTargetStocks(coll) : d.stock = sym
            THEN \E d \in FindTargetStocks(coll) : d.stock = sym /\ f[sym] = Filing8k(d)
            ELSE f[sym] = NoFiling}

\* The except branch
ErrorFilingsDict == [sym \in error_stocks |-> ErrorFiling]

\* fetch_stock_8k_filings: every dictionary it can return; readError: the
\* read of the collection raises
FetchStock8kFilings(coll, readError) ==
    IF readError THEN {ErrorFilingsDict} ELSE FilingsDicts(coll)

NotFetched == [called |-> FALSE, readError |-> FALSE, dict |-> <<>>]
\* fetch_last_24h_news was not called on its own
NoWindow == [called |-> FALSE, readError |-> FALSE, list |-> <<>>]
\* no status endpoint has answered
NoStatus == [endpoint |-> "", status |-> "", count |-> 0, latest |-> EmptyBag]


----------------------------------------------------------------------------
(* The collections a run reads *)

MaxPortfolios == 2
StartHour == 48
WindowHours == 24
HoursPerDay == 24
\* The clock of the model counts hours, and stops at the hour of the script runs
LastHour == StartHour

\* datetime.now(timezone.utc), kept as it is
Midnight_Untruncated(clock) == clock
\* .replace(hour=0, minute=0, second=0, microsecond=0)
Midnight(clock) == clock - (clock % HoursPerDay)
\* The hours that can pass between the two reads of the clock of one save
Elapsed(clock) == {e \in 0..1 : clock + e <= LastHour}

InjectiveSeqs(S) ==
    UNION {{f \in [1..n -> S] : \A i, j \in 1..n : i # j => f[i] # f[j]} :
              n \in 0..Cardinality(S)}

\* A portfolio document, as stored (with its _id) and as cleaned (without)
PortfolioDoc(owner) == [_id |-> owner, owner |-> owner]
Cleaned(doc) == [owner |-> doc.owner]
\* The states of the portfolios collection: n documents, for every n up to
\* MaxPortfolios, told apart by their owner, which is not their position
PortfolioStores ==
    {[i \in 1..n |-> PortfolioDoc(n + 1 - i)] : n \in 0..MaxPortfolios}

\* fetch_all_portfolios: the list it returns
FetchAllPortfolios(coll, readError) ==
    IF readError THEN <<>> ELSE [i \in 1..Len(coll) |-> Cleaned(coll[i])]

\* A news document: its title and its created_at, in hours
NewsDoc(title, created_at) == [title |-> title, created_at |-> created_at]

\* find({"created_at": {"$gt": cutoff_time}})
InWindow_Strict(coll, clock) == {d \in coll : d.created_at > clock - WindowHours}
\* find({"created_at": {"$gte": cutoff_time}})
InWindow(coll, clock) == {d \in coll : d.created_at >= clock - WindowHours}

\* .sort("created_at", -1): every order the cursor can give
SortedRecentFirst(docs) ==
    {f \in InjectiveSeqs(docs) :
        /\ Len(f) = Cardinality(docs)
        /\ \A i, j \in 1..Len(f) : i < j => f[i].created_at >= f[j].created_at}

\* fetch_last_24h_news: every list it can return
FetchLast24hNews(coll, clock, readError) ==
    IF readError THEN {<<>>} ELSE SortedRecentFirst(InWindow(coll, clock))

----------------------------------------------------------------------------
(* A run: run_daily_analysis of a DailyAnalyzer, run_news_analysis of a NewsAnalyzer *)

Runs == {"r1", "r2"}
\* str(uuid4())[:8]
Randoms == {"1b9d6bcd", "bbfd4b2d"}

NoId == [kind |-> "", ts |-> 0, rnd |-> ""]
\* f"{kind}-{now:%Y%m%d-%H%M%S}-{str(uuid4())[:8]}"
NewAnalysisId(kind, clock, rnd) == [kind |-> kind, ts |-> clock, rnd |-> rnd]

NoSummary == [returned |-> FALSE]

\* main: where the caller of the run is, main() of the script or the background
\*   task of app.py: "absent" (no such run), "untriggered" (the endpoint was not
\*   called yet), "scheduled" (about to connect), "running" (inside the run),
\*   "finally" (about to disconnect), "exited"
\* pc: where the run is: "idle" (not started), "fetch_news", "fetch_portfolios",
\*   "fetch_filings", "inputs_fetched", "dispatched", "collected" (gather has
\*   returned, or the one call and save of a news run), "done" (returned the
\*   summary), "aborted" (returned None: no portfolios), "raised"
\* ack: the analysis_id in the endpoint's acknowledgment, arg: the argument of
\*   the background task; client: self.client of the analyzer; disconnects:
\*   the calls of analyzer.disconnect() made so far
AbsentRun ==
    [kind |-> "", main |-> "absent", pc |-> "idle", ack |-> NoId, arg |-> NoId,
     client |-> "none", disconnects |-> 0, analysis_id |-> NoId, news_data |-> <<>>,
     portfolios_data |-> <<>>, filings_data |-> <<>>, tasks |-> <<>>,
     summary |-> NoSummary, fetches |-> <<>>]
\* main() of the script was called
ScriptRun(kind) == [AbsentRun EXCEPT !.kind = kind, !.main = "scheduled"]
\* a run an endpoint of app.py can start
UntriggeredRun == [AbsentRun EXCEPT !.main = "untriggered"]

NoRuns ==
    /\ portfolios = <<>>
    /\ news = {}
    /\ now = StartHour
    /\ daily_analysis = EmptyBag
    /\ news_analysis = EmptyBag
    /\ runs = [r \in Runs |-> AbsentRun]

(* trigger_daily_analysis, trigger_news_analysis: the acknowledgment returned, *)
(* and the background task added                                              *)
Trigger(r) ==
    /\ runs[r].main = "untriggered"
    /\ \E kind \in Analyzers, rnd \in Randoms :
          runs' = [runs EXCEPT ![r].kind = kind,
                               ![r].main = "scheduled",
                               ![r].ack = NewAnalysisId(kind, now, rnd),
                               ![r].arg = NewAnalysisId(kind, now, rnd)]
    /\ UNCHANGED <<callVars, storeVars, filingsVars, resultVars, outVars>>

(* connect(), waiting until no other run is inside its analysis *)
Connect_Exclusive(r) ==
    /\ runs[r].main = "scheduled"
    /\ \A other \in Runs \ {r} : runs[other].main # "running"
    /\ \E connectError \in BOOLEAN, created \in BOOLEAN :
          runs' = [runs EXCEPT
                      ![r].main = IF connectError THEN "finally" ELSE "running",
                      ![r].client = IF connectError /\ ~created THEN "none" ELSE "open"]
    /\ UNCHANGED <<callVars, storeVars, filingsVars, resultVars, outVars>>

(* analyzer = ...Analyzer(); await analyzer.connect(), which may raise, *)
(* before or after it has created self.client                           *)
Connect(r) ==
    /\ runs[r].main = "scheduled"
    /\ \E connectError \in BOOLEAN, created \in BOOLEAN :
          runs' = [runs EXCEPT
                      ![r].main = IF connectError THEN "finally" ELSE "running",
                      ![r].client = IF connectError /\ ~created THEN "none" ELSE "open"]
    /\ UNCHANGED <<callVars, storeVars, filingsVars, resultVars, outVars>>

(* the run has returned or raised, and the task ends without its finally *)
RunEnds_SkipsFinally(r) ==
    /\ runs[r].main = "running"
    /\ runs[r].pc \in {"done", "aborted", "raised"}
    /\ runs' = [runs EXCEPT ![r].main = "exited"]
    /\ UNCHANGED <<callVars, storeVars, filingsVars, resultVars, outVars>>

(* the run has returned or raised: the except clause, then finally *)
RunEnds(r) ==
    /\ runs[r].main = "running"
    /\ runs[r].pc \in {"done", "aborted", "raised"}
    /\ runs' = [runs EXCEPT ![r].main = "finally"]
    /\ UNCHANGED <<callVars, storeVars, filingsVars, resultVars, outVars>>

(* finally: await analyzer.disconnect() *)
Disconnect(r) ==
    /\ runs[r].main = "finally"
    /\ runs' = [runs EXCEPT
                   ![r].main = "exited",
                   ![r].disconnects = @ + 1,
                   ![r].client = IF runs[r].client = "open" THEN "closed" ELSE @]
    /\ UNCHANGED <<callVars, storeVars, filingsVars, resultVars, outVars>>

(* analysis_id = ... at the start of the run *)
StartRun(r) ==
    /\ runs[r].main = "running"
    /\ runs[r].pc = "idle"
    /\ \E rnd \in Randoms :
          runs' = [runs EXCEPT ![r].pc = "fetch_news",
                               ![r].analysis_id = NewAnalysisId(runs[r].kind, now, rnd)]
    /\ UNCHANGED <<callVars, storeVars, filingsVars, resultVars, outVars>>

(* news_data = await self.fetch_last_24h_news() *)
FetchNews(r) ==
    /\ runs[r].pc = "fetch_news"
    /\ \E readError \in BOOLEAN :
          \E list \in FetchLast24hNews(news, now, readError) :
              runs' = [runs EXCEPT ![r].pc = "fetch_portfolios",
                                   ![r].news_data = list,
                                   ![r].fetches = Append(@, "news")]
    /\ UNCHANGED <<callVars, storeVars, filingsVars, resultVars, outVars>>

(* fetch_all_portfolios, with the tasks created right after it *)
FetchPortfolios_SkipFilings(r) ==
    /\ runs[r].pc = "fetch_portfolios"
    /\ \E readError \in BOOLEAN :
          runs' = [runs EXCEPT
                      ![r].pc = "inputs_fetched",
                      ![r].portfolios_data = FetchAllPortfolios(portfolios, readError),
                      ![r].fetches = Append(@, "portfolios")]
    /\ UNCHANGED <<callVars, storeVars, filingsVars, resultVars, outVars>>

(* portfolios_data = await self.fetch_all_portfolios() *)
FetchPortfolios(r) ==
    /\ runs[r].pc = "fetch_portfolios"
    /\ \E readError \in BOOLEAN :
          runs' = [runs EXCEPT
                      ![r].pc = IF runs[r].kind = "daily" THEN "fetch_filings"
                                ELSE "inputs_fetched",
                      ![r].portfolios_data = FetchAllPortfolios(portfolios, readError),
                      ![r].fetches = Append(@, "portfolios")]
    /\ UNCHANGED <<callVars, storeVars, filingsVars, resultVars, outVars>>

(* filings_data = await self.fetch_stock_8k_filings() *)
FetchFilings(r) ==
    /\ runs[r].pc = "fetch_filings"
    /\ \E readError \in BOOLEAN :
          \E dict \in FetchStock8kFilings(stocks, readError) :
              runs' = [runs EXCEPT ![r].pc = "inputs_fetched",
                                   ![r].filings_data = dict,
                                   ![r].fetches = Append(@, "filings")]
    /\ UNCHANGED <<callVars, storeVars, filingsVars, resultVars, outVars>>

(***************************************************************************)
(* The tasks of a run.  A task is one coroutine: analyze_and_save_portfolio *)
(* ("portfolio", i), analyze_and_save_all_portfolios ("all_portfolios"),   *)
(* or, in a news run, the call and the save of run_news_analysis ("news"). *)
(*   pc: "call" (inside send_to_lyzr_agent), "save" (inside                *)
(*       save_analysis_to_db), "returned" (returned ret), "raised"         *)
(*   saved: "no", "ok" (the document was inserted), "failed"               *)
(***************************************************************************)
\* The analysis_type argument of the agent call of a task: f"portfolio_{i}",
\* "all_portfolios", and the "news-analysis" of NewsAnalyzer's session_id
AnalysisTypeArg(type, index) ==
    CASE type = "portfolio" -> <<"portfolio_", index>>
      [] type = "all_portfolios" -> <<"all_portfolios", 0>>
      [] OTHER -> <<"news-analysis", 0>>

\* f"{LYZR_AGENT_ID}-{analysis_type}-{datetime.now().strftime('%Y%m%d%H%M%S')}"
SessionId(analysis_type, clock) ==
    [agent_id |-> "LYZR_AGENT_ID", analysis_type |-> analysis_type, ts |-> clock]
NoSession == [agent_id |-> "", analysis_type |-> <<"", 0>>, ts |-> 0]

\* message: the labelled parts of the text, each the json.dumps of an argument
DailyMessage(portfolio_data, news_data, filings_data) ==
    <<<<"Portfolio: ", portfolio_data>>, <<" News: ", news_data>>,
      <<" 8-K Filings: ", filings_data>>>>
NewsMessage(news_data) == <<<<"news: ", news_data>>>>

\* payload = {"user_id": ..., "agent_id": ..., "session_id": ..., "message": ...}
Payload(session_id, message) ==
    [user_id |-> "LYZR_USER_ID", agent_id |-> "LYZR_AGENT_ID",
     session_id |-> session_id, message |-> message]
NoPayload == [user_id |-> "", agent_id |-> "", session_id |-> NoSession, message |-> <<>>]

\* The head of send_to_lyzr_agent, before the loop: the payload of task t
BuildPayload(t, clock) ==
    Payload(SessionId(AnalysisTypeArg(t.type, t.index), clock),
            IF t.type = "news" THEN NewsMessage(t.news_data)
            ELSE DailyMessage(t.portfolio, t.news_data, t.filings_data))

\* the payload built anew on every attempt
PayloadAt_Rebuilt(t, clock) == BuildPayload(t, clock)
\* json=payload of the POST: built on entry, before the first attempt, and the
\* same variable on every later one
PayloadAt(t, clock) == IF t.c.attempt = 0 THEN BuildPayload(t, clock) ELSE t.payload

\* The portfolio argument of a task: one portfolio (a dict), or the list of all
One(portfolio) == [list |-> FALSE, items |-> <<portfolio>>]
All(portfolios_data) == [list |-> TRUE, items |-> portfolios_data]

\* news_data, filings_data: the other arguments of the coroutine, which its
\* agent call puts into the message; answer: the outcome of the POST that
\* ended the agent call; inserts: the calls of insert_one the task has made;
\* payload: the request body the agent call has built; sent: the request
\* bodies it has posted
Task(type, index, portfolio, news_data, filings_data, analysis_id) ==
    [type |-> type, index |-> index, portfolio |-> portfolio,
     news_data |-> news_data, filings_data |-> filings_data,
     analysis_id |-> analysis_id, c |-> NewCall, answer |-> Failed("none"),
     payload |-> NoPayload, sent |-> {},
     pc |-> "call", saved |-> "no", inserts |-> 0, ret |-> PyNone]

\* for i, portfolio in enumerate(portfolios_data, 1), with the labels counted from 0
IndividualTasks_FromZero(portfolios_data, news_data, filings_data, analysis_id) ==
    [i \in 1..Len(portfolios_data) |->
        Task("portfolio", i - 1, One(portfolios_data[i]), news_data, filings_data,
             analysis_id)]

\* for i, portfolio in enumerate(portfolios_data, 1): individual_tasks
IndividualTasks(portfolios_data, news_data, filings_data, analysis_id) ==
    [i \in 1..Len(portfolios_data) |->
        Task("portfolio", i, One(portfolios_data[i]), news_data, filings_data,
             analysis_id)]

\* all_tasks = individual_tasks + [all_portfolio_task]
DailyTasks(portfolios_data, news_data, filings_data, analysis_id) ==
    Append(IndividualTasks(portfolios_data, news_data, filings_data, analysis_id),
           Task("all_portfolios", 0, All(portfolios_data), news_data, filings_data,
                analysis_id))

\* run_news_analysis: its one call, which is given no filings
NewsTasks(portfolios_data, news_data, analysis_id) ==
    <<Task("news", 0, All(portfolios_data), news_data, <<>>, analysis_id)>>

\* `if not portfolios_data`, tested on the news instead
MustAbort_OnNews(news_data, portfolios_data) == news_data = <<>>
\* `if not portfolios_data`, with the warning for no news made a return too
MustAbort_OnEither(news_data, portfolios_data) ==
    news_data = <<>> \/ portfolios_data = <<>>
\* `if not portfolios_data: return`
MustAbort(news_data, portfolios_data) == portfolios_data = <<>>

(* The checks after the fetches, and the creation of the tasks up to gather *)
Dispatch(r) ==
    /\ runs[r].pc = "inputs_fetched"
    /\ LET run == runs[r]
       IN runs' = [runs EXCEPT ![r] =
              IF MustAbort(run.news_data, run.portfolios_data)
              THEN [run EXCEPT !.pc = "aborted"]
              ELSE [run EXCEPT
                       !.pc = "dispatched",
                       !.tasks = IF run.kind = "daily"
                                 THEN DailyTasks(run.portfolios_data, run.news_data,
                                                 run.filings_data, run.analysis_id)
                                 ELSE NewsTasks(run.portfolios_data, run.news_data,
                                                run.analysis_id)]]
    /\ UNCHANGED <<callVars, storeVars, filingsVars, resultVars, outVars>>

\* {"portfolio_index": ..., "portfolio": ..., "analysis": result}, and in a
\* news run {"portfolios": ..., "analysis": result, "analysis_id": ...}
ResultDict(t) ==
    [t |-> "result", s |-> "", m |-> {<<"analysis", t.c.result>>},
     portfolio_index |-> t.index, portfolio |-> t.portfolio, analysis_id |-> t.analysis_id]

\* what the coroutine returns when it returns without a save
ReturnUnsaved(t) ==
    CASE t.type = "all_portfolios" /\ t.c.st = "returned" -> t.c.result
      [] OTHER -> PyNone

\* what the coroutine returns after save_analysis_to_db came back
ReturnSaved(t) == IF t.type = "all_portfolios" THEN t.c.result ELSE ResultDict(t)

\* The task after its call made a step: `if result:` and the except clause.
\* run_news_analysis re-raises what its call raises.
AfterCall(t) ==
    CASE t.c.st = "post" -> t
      [] t.c.st = "raised" ->
            IF t.type = "news" THEN [t EXCEPT !.pc = "raised"]
            ELSE [t EXCEPT !.pc = "returned", !.ret = PyNone]
      [] OTHER ->
            IF Truthy(t.c.result) THEN [t EXCEPT !.pc = "save"]
            ELSE [t EXCEPT !.pc = "returned", !.ret = ReturnUnsaved(t)]

\* What a run's agent can answer: a representative of each kind of outcome
RunReplies ==
    {Failed("timeout"), Response(500, "invalid", PyNone), Response(200, "absent", PyNone),
     Response(200, "reply", PyStr("{\"key_insights\": [\"x\"]}")),
     Response(200, "reply", PyStr("{}"))}

(* One attempt of the agent call of task i, up to the next await, with the *)
(* outcome of the POST drawn from replies                                  *)
TaskAttemptOf(r, i, replies) ==
    /\ runs[r].pc = "dispatched"
    /\ i \in DOMAIN runs[r].tasks
    /\ runs[r].tasks[i].pc = "call"
    /\ \E reply \in replies :
          LET t == runs[r].tasks[i]
              step == SendStep(runs[r].kind, t.c.attempt, reply)
          IN runs' = [runs EXCEPT ![r].tasks[i] =
                         AfterCall([t EXCEPT
                                       !.payload = PayloadAt(t, now),
                                       !.sent = @ \cup {PayloadAt(t, now)},
                                       !.c = AfterStep(t.c, step),
                                       !.answer = IF step.do = "continue" THEN @
                                                  ELSE reply])]
    /\ UNCHANGED <<callVars, storeVars, filingsVars, resultVars, outVars>>

TaskAttempt(r, i) == TaskAttemptOf(r, i, RunReplies)

\* analysis_doc of DailyAnalyzer.save_analysis_to_db, with analysis_id left out
AnalysisDoc_NoId(r, analysis_data, analysis_type, portfolio_data, analysis_id, today, created_at) ==
    [by |-> r, analysis_id |-> NoId, date |-> today, analysis_type |-> analysis_type,
     portfolio |-> portfolio_data, analysis_result |-> analysis_data,
     created_at |-> created_at, status |-> "completed"]

\* analysis_doc of DailyAnalyzer.save_analysis_to_db; by: the run that inserts
\* it; today, created_at: what the two reads of the clock gave
AnalysisDoc(r, analysis_data, analysis_type, portfolio_data, analysis_id, today, created_at) ==
    [by |-> r, analysis_id |-> analysis_id, date |-> today,
     analysis_type |-> analysis_type, portfolio |-> portfolio_data,
     analysis_result |-> analysis_data, created_at |-> created_at,
     status |-> "completed"]

\* len(x) raises TypeError unless x is sized
Sized(v) == v.t \in {"str", "list", "dict"}

\* NewsAnalyzer.save_analysis_to_db: structured_analysis
StructuredAnalysis(analysis_data) ==
    IF analysis_data.t = "dict"
    THEN PyDict({<<"key_insights", DictGet(analysis_data, "key_insights", EmptyList)>>,
                 <<"raw_response", DictGet(analysis_data, "raw_response", PyNone)>>,
                 <<"parse_error", DictGet(analysis_data, "parse_error", PyNone)>>})
    ELSE PyDict({<<"raw_response", analysis_data>>})

\* NewsAnalyzer.save_analysis_to_db: the logging of the number of insights raises
StructuringRaises(analysis_data) ==
    analysis_data.t = "dict" /\ ~Sized(DictGet(analysis_data, "key_insights", EmptyList))

\* analysis_doc of NewsAnalyzer.save_analysis_to_db
NewsAnalysisDoc(r, analysis_data, portfolios_data, news_data, analysis_id, today, created_at) ==
    [by |-> r, analysis_id |-> analysis_id, date |-> today,
     analysis_type |-> <<"news_analysis_all_portfolios", 0>>,
     portfolios |-> portfolios_data, news_data |-> news_data,
     analysis_result |-> StructuredAnalysis(analysis_data),
     created_at |-> created_at, status |-> "completed"]

\* insert_one, with the collection emptied first
InsertOne_Replacing(coll, doc) == SetToBag({doc})
\* insert_one(analysis_doc)
InsertOne(coll, doc) == coll (+) SetToBag({doc})

\* save_analysis_to_db lets the exception of a failed insert through
AfterSave_Raising(t, failed) ==
    IF failed THEN [t EXCEPT !.pc = "raised", !.saved = "failed"]
    ELSE [t EXCEPT !.pc = "returned", !.ret = ReturnSaved(t), !.saved = "ok"]
\* The task after save_analysis_to_db returned, the inserted id or None (its
\* except clause): the coroutine returns its result either way
AfterSave(t, failed) ==
    [t EXCEPT !.pc = "returned", !.ret = ReturnSaved(t),
              !.saved = IF failed THEN "failed" ELSE "ok"]

(* save_analysis_to_db of task i, and the return of the task's coroutine *)
TaskSave(r, i) ==
    /\ runs[r].pc = "dispatched"
    /\ i \in DOMAIN runs[r].tasks
    /\ runs[r].tasks[i].pc = "save"
    /\ LET run == runs[r]
           t == run.tasks[i]
       IN \E insertError \in BOOLEAN, elapsed \in Elapsed(now) :
             LET raises == run.kind = "news" /\ StructuringRaises(t.c.result)
                 failed == insertError \/ raises
                 today == Midnight(now)
                 created_at == now + elapsed
             IN /\ runs' = [runs EXCEPT ![r].tasks[i] =
                               [AfterSave(t, failed) EXCEPT
                                   !.inserts = IF raises THEN @ ELSE @ + 1]]
                /\ now' = created_at
                /\ IF failed
                   THEN UNCHANGED resultVars
                   ELSE IF run.kind = "daily"
                        THEN /\ daily_analysis' = InsertOne(daily_analysis,
                                    AnalysisDoc(r, t.c.result, <<t.type, t.index>>,
                                                t.portfolio, t.analysis_id,
                                                today, created_at))
                             /\ UNCHANGED news_analysis
                        ELSE /\ news_analysis' = InsertOne(news_analysis,
                                    NewsAnalysisDoc(r, t.c.result, t.portfolio,
                                                    t.news_data, t.analysis_id,
                                                    today, created_at))
                             /\ UNCHANGED daily_analysis
    /\ UNCHANGED <<callVars, stocks, portfolios, news, filingsVars, outVars>>

\* gather returned as soon as one task has
AllFinished_AnyOne(tasks) ==
    \E i \in DOMAIN tasks : tasks[i].pc \in {"returned", "raised"}
\* results = await asyncio.gather(*all_tasks, return_exceptions=True)
AllFinished(tasks) ==
    \A i \in DOMAIN tasks : tasks[i].pc \in {"returned", "raised"}

\* The summary of run_daily_analysis, listing the results that were saved
DailySummary_SavedOnly(run) ==
    LET n == Len(run.tasks) - 1
        individual == SubSeq(run.tasks, 1, n)
        kept == SelectSeq(individual, LAMBDA t : t.pc = "returned" /\ t.saved = "ok")
    IN [returned |-> TRUE,
        individual_results |-> [k \in 1..Len(kept) |-> kept[k].ret],
        all_portfolio_result |-> IF run.tasks[n + 1].pc = "returned"
                                 THEN run.tasks[n + 1].ret ELSE PyNone,
        news_count |-> Len(run.news_data),
        portfolio_count |-> Len(run.portfolios_data)]

\* "Process results": the summary run_daily_analysis returns
DailySummary(run) ==
    LET n == Len(run.tasks) - 1
        individual == SubSeq(run.tasks, 1, n)
        kept == SelectSeq(individual, LAMBDA t : t.pc = "returned" /\ Truthy(t.ret))
    IN [returned |-> TRUE,
        individual_results |-> [k \in 1..Len(kept) |-> kept[k].ret],
        all_portfolio_result |-> IF run.tasks[n + 1].pc = "returned"
                                 THEN run.tasks[n + 1].ret ELSE PyNone,
        news_count |-> Len(run.news_data),
        portfolio_count |-> Len(run.portfolios_data)]

\* the summary run_news_analysis returns
NewsSummary(run) ==
    [returned |-> TRUE, result |-> run.tasks[1].ret,
     news_count |-> Len(run.news_data), portfolio_count |-> Len(run.portfolios_data)]

(* gather returns (daily); the call and the save have returned (news) *)
Collect(r) ==
    /\ runs[r].pc = "dispatched"
    /\ AllFinished(runs[r].tasks)
    /\ LET run == runs[r]
       IN runs' = [runs EXCEPT ![r].pc =
              IF run.kind = "news" /\ run.tasks[1].pc = "raised"
              THEN "raised" ELSE "collected"]
    /\ UNCHANGED <<callVars, storeVars, filingsVars, resultVars, outVars>>

(* "Process results" and the return of the summary *)
ReturnSummary(r) ==
    /\ runs[r].pc = "collected"
    /\ LET run == runs[r]
       IN runs' = [runs EXCEPT
                      ![r].pc = "done",
                      ![r].summary = IF run.kind = "daily" THEN DailySummary(run)
                                     ELSE NewsSummary(run)]
    /\ UNCHANGED <<callVars, storeVars, filingsVars, resultVars, outVars>>

\* A step of run r, with the agent's answers drawn from replies
RunStepOf(r, replies) ==
    \/ Connect(r)
    \/ RunEnds(r)
    \/ Disconnect(r)
    \/ StartRun(r)
    \/ FetchNews(r)
    \/ FetchPortfolios(r)
    \/ FetchFilings(r)
    \/ Dispatch(r)
    \/ \E i \in 1..(MaxPortfolios + 1) : TaskAttemptOf(r, i, replies)
    \/ \E i \in 1..(MaxPortfolios + 1) : TaskSave(r, i)
    \/ Collect(r)
    \/ ReturnSummary(r)

RunStep(r) == RunStepOf(r, RunReplies)

----------------------------------------------------------------------------
(* get_daily_analysis_status, get_news_analysis_status of app.py *)

StatusLimit == 10

\* find().sort("created_at", -1).limit(10): every choice of the documents the
\* cursor can give, the most recent ones
LatestBags(coll) ==
    {b \in SubBag(coll) :
        /\ BagCardinality(b) =
              (IF BagCardinality(coll) <= StatusLimit THEN BagCardinality(coll)
               ELSE StatusLimit)
        /\ \A d \in BagToSet(b), e \in BagToSet(coll) :
              CopiesIn(e, b) < CopiesIn(e, coll) => d.created_at >= e.created_at}

\* the response: no_data, or the cleaned documents and their number
StatusOf(endpoint, results) ==
    IF results = EmptyBag
    THEN [endpoint |-> endpoint, status |-> "no_data", count |-> 0, latest |-> EmptyBag]
    ELSE [endpoint |-> endpoint, status |-> "success",
          count |-> BagCardinality(results), latest |-> results]

\* HTTPException(status_code=500)
StatusFailed(endpoint) ==
    [endpoint |-> endpoint, status |-> "error", count |-> 0, latest |-> EmptyBag]

(* GET /daily-analysis/status ("daily"), GET /news-analysis/status ("news") *)
StatusRead(endpoint) ==
    /\ \E readError \in BOOLEAN :
          \E results \in LatestBags(IF endpoint = "daily" THEN daily_analysis
                                    ELSE news_analysis) :
              status_response' = IF readError THEN StatusFailed(endpoint)
                                 ELSE StatusOf(endpoint, results)
    /\ UNCHANGED <<callVars, storeVars, filingsVars, resultVars, runVars, window>>

----------------------------------------------------------------------------
(* A run of the script (main): one analyzer, every state of its collections *)

NewsStores == {{}, {NewsDoc("old", StartHour - 25), NewsDoc("new", StartHour - 1)}}
\* the stocks collection of a run: one tracked stock with a filing (every
\* state of the collection is what SpecFilings goes through)
StockStores == {{[stock |-> "NFLX", filing |-> "8-K text"]}}

InitRun ==
    /\ call = [analyzer |-> "daily", c |-> NewCall]
    /\ trace = <<>>
    /\ filings = NotFetched
    /\ window = NoWindow
    /\ status_response = NoStatus
    /\ portfolios \in PortfolioStores
    /\ news \in NewsStores
    /\ stocks \in StockStores
    /\ now = StartHour
    /\ daily_analysis = EmptyBag
    /\ news_analysis = EmptyBag
    /\ \E kind \in Analyzers :
          runs = [r \in Runs |-> IF r = "r1" THEN ScriptRun(kind) ELSE AbsentRun]

NextRun == \E r \in Runs : RunStep(r)

SpecRun == InitRun /\ [][NextRun]_vars

----------------------------------------------------------------------------
(* A run started through an endpoint of app.py, as a background task *)

InitApp ==
    /\ call = [analyzer |-> "daily", c |-> NewCall]
    /\ trace = <<>>
    /\ filings = NotFetched
    /\ window = NoWindow
    /\ status_response = NoStatus
    /\ portfolios \in {p \in PortfolioStores : Len(p) <= 1}
    /\ news \in NewsStores
    /\ stocks = {}
    /\ now = StartHour
    /\ daily_analysis = EmptyBag
    /\ news_analysis = EmptyBag
    /\ runs = [r \in Runs |-> IF r = "r1" THEN UntriggeredRun ELSE AbsentRun]

NextApp == \E r \in Runs : Trigger(r) \/ RunStep(r)

SpecApp == InitApp /\ [][NextApp]_vars

\* The same, with every await of a background task coming back: a task that
\* can take a step is not put off forever.  Nothing makes a client call an
\* endpoint.
SpecServe == InitApp /\ [][NextApp]_vars /\ WF_vars(\E r \in Runs : RunStep(r))

----------------------------------------------------------------------------
(* The app over collections that hold the records of an earlier run: a *)
(* triggered run, and reads of the status endpoints at any moment       *)

\* The records an earlier run, of the day before, left in the collections
EarlierDailyDoc ==
    AnalysisDoc("r0", PyStr("earlier"), <<"all_portfolios", 0>>, All(<<>>),
                NewAnalysisId("daily", StartHour - HoursPerDay, "bbfd4b2d"),
                Midnight(StartHour - HoursPerDay), StartHour - HoursPerDay)
EarlierNewsDoc ==
    NewsAnalysisDoc("r0", InsightsDict, All(<<>>), <<>>,
                    NewAnalysisId("news", StartHour - HoursPerDay, "bbfd4b2d"),
                    Midnight(StartHour - HoursPerDay), StartHour - HoursPerDay)

InitLog ==
    /\ call = [analyzer |-> "daily", c |-> NewCall]
    /\ trace = <<>>
    /\ filings = NotFetched
    /\ window = NoWindow
    /\ status_response = NoStatus
    /\ portfolios \in {p \in PortfolioStores : Len(p) <= 1}
    /\ news \in NewsStores
    /\ stocks = {}
    /\ now = StartHour
    /\ \E earlier \in BOOLEAN :
          /\ daily_analysis = IF earlier THEN SetToBag({EarlierDailyDoc}) ELSE EmptyBag
          /\ news_analysis = IF earlier THEN SetToBag({EarlierNewsDoc}) ELSE EmptyBag
    /\ runs = [r \in Runs |-> IF r = "r1" THEN UntriggeredRun ELSE AbsentRun]

NextLog ==
    \/ \E r \in Runs : Trigger(r) \/ RunStep(r)
    \/ \E endpoint \in Analyzers : StatusRead(endpoint)

SpecLog == InitLog /\ [][NextLog]_vars

----------------------------------------------------------------------------
(* fetch_stock_8k_filings on its own, for every state of the stocks collection *)

InitFilings ==
    /\ stocks \in SUBSET StockDocs
    /\ filings = NotFetched
    /\ window = NoWindow
    /\ status_response = NoStatus
    /\ call = [analyzer |-> "daily", c |-> NewCall]
    /\ trace = <<>>
    /\ NoRuns

FetchFilingsAlone ==
    /\ ~filings.called
    /\ \E readError \in BOOLEAN :
          \E dict \in FetchStock8kFilings(stocks, readError) :
              filings' = [called |-> TRUE, readError |-> readError, dict |-> dict]
    /\ UNCHANGED <<callVars, storeVars, resultVars, runVars, outVars>>

NextFilings == FetchFilingsAlone

SpecFilings == InitFilings /\ [][NextFilings]_vars

----------------------------------------------------------------------------
(* A run of the script while the clock advances, started late in the evening *)

\* how long before the last hour of the clock a run can start
EveningHours == 2

(* An hour passes *)
Tick ==
    /\ now < LastHour
    /\ now' = now + 1
    /\ UNCHANGED <<callVars, stocks, portfolios, news, filingsVars, resultVars,
                   runVars, outVars>>

InitSave ==
    /\ call = [analyzer |-> "daily", c |-> NewCall]
    /\ trace = <<>>
    /\ filings = NotFetched
    /\ window = NoWindow
    /\ status_response = NoStatus
    /\ portfolios \in {p \in PortfolioStores : Len(p) = 1}
    /\ news \in NewsStores
    /\ stocks = {}
    /\ now \in (LastHour - EveningHours)..LastHour
    /\ daily_analysis = EmptyBag
    /\ news_analysis = EmptyBag
    /\ \E kind \in Analyzers :
          runs = [r \in Runs |-> IF r = "r1" THEN ScriptRun(kind) ELSE AbsentRun]

NextSave ==
    \/ \E r \in Runs : RunStep(r)
    \/ Tick

SpecSave == InitSave /\ [][NextSave]_vars

----------------------------------------------------------------------------
(* fetch_last_24h_news on its own, for every state of the news collection *)

\* The articles of the collection: created 25 hours, 24 hours and 1 hour
\* before the last hour of the clock, two of each age
NewsTitles == {"a", "b"}
NewsDocs ==
    {NewsDoc(title, LastHour - age) :
        title \in NewsTitles, age \in {WindowHours + 1, WindowHours, 1}}

InitNews ==
    /\ news \in SUBSET NewsDocs
    /\ now \in {LastHour - 1, LastHour}
    /\ call = [analyzer |-> "daily", c |-> NewCall]
    /\ trace = <<>>
    /\ stocks = {}
    /\ filings = NotFetched
    /\ window = NoWindow
    /\ status_response = NoStatus
    /\ portfolios = <<>>
    /\ daily_analysis = EmptyBag
    /\ news_analysis = EmptyBag
    /\ runs = [r \in Runs |-> AbsentRun]

FetchNewsAlone ==
    /\ ~window.called
    /\ \E readError \in BOOLEAN :
          \E list \in FetchLast24hNews(news, now, readError) :
              window' = [called |-> TRUE, readError |-> readError, list |-> list]
    /\ UNCHANGED <<callVars, storeVars, filingsVars, resultVars, runVars, status_response>>

NextNews == FetchNewsAlone

SpecNews == InitNews /\ [][NextNews]_vars

----------------------------------------------------------------------------
(* One agent call on its own, for every analyzer and every sequence of replies *)

InitCall ==
    /\ call \in {[analyzer |-> a, c |-> NewCall] : a \in Analyzers}
    /\ trace = <<>>
    /\ stocks = {}
    /\ filings = NotFetched
    /\ window = NoWindow
    /\ status_response = NoStatus
    /\ NoRuns

Attempt(reply) ==
    /\ call.c.st = "post"
    /\ LET step == SendStep(call.analyzer, call.c.attempt, reply)
       IN /\ call' = [call EXCEPT !.c = AfterStep(call.c, step)]
          /\ trace' = trace \o StepEvents(call.c.attempt, reply, step)
    /\ UNCHANGED <<storeVars, filingsVars, resultVars, runVars, outVars>>

NextCall == \E reply \in Replies : Attempt(reply)

SpecCall == InitCall /\ [][NextCall]_vars

----------------------------------------------------------------------------
(* A run of the script over one portfolio, for every answer of the agent *)

InitReplies ==
    /\ call = [analyzer |-> "daily", c |-> NewCall]
    /\ trace = <<>>
    /\ filings = NotFetched
    /\ window = NoWindow
    /\ status_response = NoStatus
    /\ portfolios \in {p \in PortfolioStores : Len(p) = 1}
    /\ news = {NewsDoc("new", StartHour - 1)}
    /\ stocks = {}
    /\ now = StartHour
    /\ daily_analysis = EmptyBag
    /\ news_analysis = EmptyBag
    /\ \E kind \in Analyzers :
          runs = [r \in Runs |-> IF r = "r1" THEN ScriptRun(kind) ELSE AbsentRun]

NextReplies == \E r \in Runs : RunStepOf(r, Replies)

SpecReplies == InitReplies /\ [][NextReplies]_vars

----------------------------------------------------------------------------
(* A run of the script in which every store operation and every POST comes *)
(* back: no step of the run that can be taken is put off forever           *)

InitLive ==
    /\ call = [analyzer |-> "daily", c |-> NewCall]
    /\ trace = <<>>
    /\ filings = NotFetched
    /\ window = NoWindow
    /\ status_response = NoStatus
    /\ portfolios \in {p \in PortfolioStores : Len(p) <= 1}
    /\ news \in NewsStores
    /\ stocks = {}
    /\ now = StartHour
    /\ daily_analysis = EmptyBag
    /\ news_analysis = EmptyBag
    /\ \E kind \in Analyzers :
          runs = [r \in Runs |-> IF r = "r1" THEN ScriptRun(kind) ELSE AbsentRun]

NextLive == \E r \in Runs : RunStep(r)

SpecLive == InitLive /\ [][NextLive]_vars /\ WF_vars(NextLive)

----------------------------------------------------------------------------
(* Two runs of the script at the same time, over the same collections: two *)
(* processes, each with its own analyzer and its own client.  A news run   *)
(* next to a daily run or next to another news run                         *)

InitTwo ==
    /\ call = [analyzer |-> "daily", c |-> NewCall]
    /\ trace = <<>>
    /\ filings = NotFetched
    /\ window = NoWindow
    /\ status_response = NoStatus
    /\ portfolios \in {p \in PortfolioStores : Len(p) = 1}
    /\ news = {NewsDoc("new", StartHour - 1)}
    /\ stocks = {}
    /\ now = StartHour
    /\ daily_analysis = EmptyBag
    /\ news_analysis = EmptyBag
    /\ \E kind \in Analyzers :
          runs = [r \in Runs |-> IF r = "r1" THEN ScriptRun(kind)
                                ELSE ScriptRun("news")]

NextTwo == \E r \in Runs : RunStep(r)

SpecTwo == InitTwo /\ [][NextTwo]_vars

----------------------------------------------------------------------------
(* The agent call: what the trace of one call shows *)

PostsOf(tr) == SelectSeq(tr, LAMBDA ev : ev.e = "post")
Posts == PostsOf(trace)
CallEnded == call.c.st # "post"
LastReply == Posts[Len(Posts)].reply
IsUnreachable(reply) == reply.kind \in {"timeout", "connect_error"}
IsNon2xx(reply) == reply.kind = "response" /\ ~(reply.status \in 200..299)
IsNon200(reply) == reply.kind = "response" /\ reply.status # 200
IsOk200(reply) == reply.kind = "response" /\ reply.status = 200

\* C1: a timeout or a connection error on the third and final attempt leaves
\* the call as an exception, and is not returned as None.
C1_FinalUnreachablePropagates ==
    (CallEnded /\ Len(Posts) = max_retries /\ IsUnreachable(LastReply))
        => call.c.st = "raised"

\* C2, as claimed: at most 3 POSTs; a POST is followed by another one only if
\* it was not the final attempt and came to a non-2xx status, a timeout or a
\* connection error; three non-2xx statuses end in `return None`, not in a raise.
C2_RetryOnlyAfterNon2xx ==
    /\ Len(Posts) <= max_retries
    /\ \A i \in 1..(Len(Posts) - 1) :
          /\ Posts[i].attempt < max_retries - 1
          /\ IsNon2xx(Posts[i].reply) \/ IsUnreachable(Posts[i].reply)
    /\ (CallEnded /\ Len(Posts) = max_retries /\ \A i \in 1..Len(Posts) : IsNon2xx(Posts[i].reply))
          => (call.c.st = "returned" /\ call.c.result = PyNone /\ call.c.at = "status")

\* C2, amended: the same with "a status other than 200" for "a non-2xx status".
C2_RetryOnlyAfterNon200 ==
    /\ Len(Posts) <= max_retries
    /\ \A i \in 1..(Len(Posts) - 1) :
          /\ Posts[i].attempt < max_retries - 1
          /\ IsNon200(Posts[i].reply) \/ IsUnreachable(Posts[i].reply)
    /\ (CallEnded /\ Len(Posts) = max_retries /\ \A i \in 1..Len(Posts) : IsNon200(Posts[i].reply))
          => (call.c.st = "returned" /\ call.c.result = PyNone /\ call.c.at = "status")

\* C2, witness: three POSTs, each answered by a status other than 200, the
\* second one by 201, and the call has returned None.
C2_Witness ==
    /\ CallEnded /\ Len(Posts) = max_retries
    /\ \A i \in 1..Len(Posts) : IsNon200(Posts[i].reply)
    /\ Posts[2].reply.status = 201
    /\ call.c.result = PyNone

\* C9: for an HTTP 200 reply the call returns: the parsed structure for a str
\* that parses as JSON; {raw_response, parse_error} for a str that does not;
\* a mapping as it is; any other shape unchanged.
C9_NormalizationRule ==
    (CallEnded /\ IsOk200(LastReply) /\ LastReply.body = "reply") =>
        LET v == LastReply.value
            parsed == JsonLoads(v.s)
        IN /\ call.c.st = "returned"
           /\ call.c.result =
                 CASE v.t = "str" /\ parsed.ok -> parsed.v
                   [] v.t = "str" /\ ~parsed.ok ->
                         PyDict({<<"raw_response", v>>, <<"parse_error", PyStr(parsed.msg)>>})
                   [] OTHER -> v

Sleeps == SelectSeq(trace, LAMBDA ev : ev.e = "sleep")
\* the normalized form of a reply: a text parsed, or wrapped when it does not
\* parse; a mapping and any other shape as they are
NormalForm(v) ==
    CASE v.t = "str" /\ JsonLoads(v.s).ok -> JsonLoads(v.s).v
      [] v.t = "str" /\ ~JsonLoads(v.s).ok ->
            PyDict({<<"raw_response", v>>, <<"parse_error", PyStr(JsonLoads(v.s).msg)>>})
      [] OTHER -> v

\* C12: when attempts 1..k-1 of a call came to a non-2xx status and attempt k
\* to an HTTP 200 with a well-formed body, the call returns the normalized
\* reply of attempt k, and exactly k-1 sleeps happened, each of 5 seconds and
\* each between two consecutive POSTs.
C12_SuccessAfterRetries ==
    (/\ CallEnded
     /\ IsOk200(LastReply) /\ WellFormed(LastReply)
     /\ \A i \in 1..(Len(Posts) - 1) : IsNon2xx(Posts[i].reply)) =>
        /\ call.c.st = "returned"
        /\ call.c.result = NormalForm(AiResponse(LastReply))
        /\ Len(Sleeps) = Len(Posts) - 1
        /\ \A j \in 1..Len(trace) :
              trace[j].e = "sleep" =>
                  /\ trace[j].secs = 5
                  /\ 1 < j /\ j < Len(trace)
                  /\ trace[j - 1].e = "post" /\ trace[j + 1].e = "post"
                  /\ trace[j + 1].attempt = trace[j - 1].attempt + 1

\* C18: the normalization of the news call leaves a mapping as it is: a reply
\* that is a mapping already (a parsed structure or a {raw_response,
\* parse_error} wrapper) is returned unchanged, and normalizing again a mapping
\* that the call returned (parsed from a text, or wrapped) gives that mapping.
C18_NormalizationIdempotent ==
    (call.analyzer = "news" /\ CallEnded /\ call.c.at = "success") =>
        /\ (WellFormed(LastReply) /\ AiResponse(LastReply).t = "dict") =>
              call.c.result = AiResponse(LastReply)
        /\ call.c.result.t = "dict" =>
              ParseReply(call.c.result) = Returns(call.c.result, "success")

\* C18, witness: the news call was answered, on its second attempt, with a
\* reply that is a wrapper already, and returned it.
C18_Witness ==
    /\ call.analyzer = "news" /\ CallEnded /\ Len(Posts) = 2
    /\ IsOk200(LastReply) /\ LastReply.body = "reply"
    /\ LastReply.value = WrapperDict
    /\ call.c.result = WrapperDict

----------------------------------------------------------------------------
(* fetch_stock_8k_filings *)

\* C8: for every state of the stocks collection, a read error included, the
\* keys of the returned mapping are exactly the tracked symbols AAPL, MSFT,
\* NFLX, AMZN, and there are as many keys as tracked symbols.
C8_FilingsTotal ==
    filings.called =>
        /\ DOMAIN filings.dict = target_stocks
        /\ Cardinality(DOMAIN filings.dict) = Cardinality(target_stocks)

----------------------------------------------------------------------------
(* The runs *)

DailyRuns == {r \in Runs : runs[r].kind = "daily" /\ runs[r].main # "absent"}
Range(f) == {f[i] : i \in DOMAIN f}
\* the documents of a collection that run r inserted, counted with repetition
InsertedBy(coll, r, type) ==
    LET docs == {d \in BagToSet(coll) : d.by = r /\ d.analysis_type[1] = type}
    IN BagCardinality([d \in docs |-> CopiesIn(d, coll)])
\* the document save_analysis_to_db of task t of daily run r inserts
DocOfTask(r, t) ==
    AnalysisDoc(r, t.c.result, <<t.type, t.index>>, t.portfolio, runs[r].analysis_id,
                Midnight(StartHour), StartHour)
GotPayload(t) == t.c.st = "returned" /\ Truthy(t.c.result)

\* C3: in a daily run, however one task fails, no other task is held up by it
\* (a task that has not returned can always take its next step), the run ends
\* only when every task has returned, and every task whose agent call returned
\* a non-empty payload and whose insert did not fail has its record in
\* daily_analysis.
C3_PartialFailureIsolation ==
    \A r \in DailyRuns :
        /\ runs[r].pc = "dispatched" =>
              \A i \in DOMAIN runs[r].tasks :
                  /\ runs[r].tasks[i].pc = "call" => ENABLED TaskAttempt(r, i)
                  /\ runs[r].tasks[i].pc = "save" => ENABLED TaskSave(r, i)
        /\ runs[r].pc = "done" =>
              \A i \in DOMAIN runs[r].tasks :
                  LET t == runs[r].tasks[i]
                  IN /\ t.pc = "returned"
                     /\ (GotPayload(t) /\ t.saved # "failed") =>
                            BagIn(DocOfTask(r, t), daily_analysis)

\* C3, witness: two portfolios; the insert of the first task's record failed,
\* and the records of the second task and of the aggregate task are persisted.
C3_Witness ==
    /\ runs["r1"].kind = "daily" /\ runs["r1"].pc = "done"
    /\ Len(runs["r1"].tasks) = 3
    /\ runs["r1"].tasks[1].saved = "failed"
    /\ BagIn(DocOfTask("r1", runs["r1"].tasks[2]), daily_analysis)
    /\ BagIn(DocOfTask("r1", runs["r1"].tasks[3]), daily_analysis)

\* C4: every record of daily_analysis and of news_analysis carries the
\* analysis_id that the run that inserted it generated at its start, so all
\* records of one run carry the same one.
C4_RecordsCarryRunId ==
    /\ \A d \in BagToSet(daily_analysis) :
          /\ d.analysis_id = runs[d.by].analysis_id
          /\ d.analysis_id # NoId /\ d.analysis_id.kind = "daily"
    /\ \A d \in BagToSet(news_analysis) :
          /\ d.analysis_id = runs[d.by].analysis_id
          /\ d.analysis_id # NoId /\ d.analysis_id.kind = "news"

\* C4, witness: a daily run has inserted the records of both portfolios and
\* the aggregate record.
C4_Witness ==
    /\ runs["r1"].pc = "done"
    /\ InsertedBy(daily_analysis, "r1", "portfolio") = 2
    /\ InsertedBy(daily_analysis, "r1", "all_portfolios") = 1

\* C5: the analysis_id of the acknowledgment of a trigger endpoint is the
\* analysis_id of every record the run it started persists.
C5_AckIsRunId ==
    /\ \A d \in BagToSet(daily_analysis) : runs[d.by].ack = d.analysis_id
    /\ \A d \in BagToSet(news_analysis) : runs[d.by].ack = d.analysis_id

\* C6: a run whose portfolio fetch gave zero portfolios creates no task (sends
\* nothing to the agent), persists nothing, returns no summary, and can only
\* go on to abort.
C6_NoPortfoliosAborts ==
    \A r \in Runs :
        ("portfolios" \in Range(runs[r].fetches) /\ runs[r].portfolios_data = <<>>) =>
            /\ runs[r].pc \in {"fetch_filings", "inputs_fetched", "aborted"}
            /\ runs[r].pc = "inputs_fetched" => ENABLED Dispatch(r)
            /\ runs[r].tasks = <<>>
            /\ ~runs[r].summary.returned
            /\ \A d \in BagToSet(daily_analysis) : d.by # r
            /\ \A d \in BagToSet(news_analysis) : d.by # r

\* C6, witness: a run aborted although news were found, after the read of a
\* non-empty portfolios collection failed.
C6_Witness ==
    /\ runs["r1"].pc = "aborted"
    /\ runs["r1"].news_data # <<>>
    /\ portfolios # <<>>

\* C7: a daily run with N >= 1 portfolios creates N individual tasks, task i
\* labelled portfolio_i and carrying the i-th portfolio fetched, and one
\* aggregate task over all of them; it persists at most N individual records
\* and at most one aggregate record.
C7_TasksPerPortfolio ==
    \A r \in DailyRuns :
        runs[r].pc \in {"dispatched", "collected", "done"} =>
            LET n == Len(runs[r].portfolios_data)
                tasks == runs[r].tasks
            IN /\ n >= 1 /\ n = Len(portfolios)
               /\ Len(tasks) = n + 1
               /\ \A i \in 1..n :
                     /\ tasks[i].type = "portfolio" /\ tasks[i].index = i
                     /\ tasks[i].portfolio = One(Cleaned(portfolios[i]))
               /\ tasks[n + 1].type = "all_portfolios"
               /\ tasks[n + 1].portfolio = All(runs[r].portfolios_data)
               /\ InsertedBy(daily_analysis, r, "portfolio") <= n
               /\ InsertedBy(daily_analysis, r, "all_portfolios") <= 1

\* C7, witness: a finished daily run over two portfolios that persisted two
\* individual records and the aggregate record.
C7_Witness ==
    /\ runs["r1"].kind = "daily" /\ runs["r1"].pc = "done"
    /\ Len(runs["r1"].portfolios_data) = 2
    /\ InsertedBy(daily_analysis, "r1", "portfolio") = 2
    /\ InsertedBy(daily_analysis, "r1", "all_portfolios") = 1
    /\ runs["r1"].main = "exited"

----------------------------------------------------------------------------
(* The runs: what becomes of the agent's answers *)

\* the analysis_type of the record that task t saves
TypeOfTask(t) ==
    IF t.type = "news" THEN <<"news_analysis_all_portfolios", 0>> ELSE <<t.type, t.index>>
\* the collection a run of this kind writes
CollectionOf(kind) == IF kind = "daily" THEN daily_analysis ELSE news_analysis
\* an HTTP 200 answer whose reply is a text that is not JSON, the empty text
\* of an answer without a reply field included
Unparseable(reply) ==
    /\ IsOk200(reply) /\ WellFormed(reply)
    /\ AiResponse(reply).t = "str"
    /\ ~JsonLoads(AiResponse(reply).s).ok
\* v is a raw-response wrapper that holds the text
IsRawWrapperOf(v, text) ==
    /\ v.t = "dict"
    /\ DictGet(v, "raw_response", PyNone) = text
    /\ DictGet(v, "parse_error", PyNone) # PyNone

\* C11: when a run has ended, every task whose agent call was answered by an
\* HTTP 200 with an unparseable reply (the empty text of an absent reply field
\* included) has its record in the run's collection, unless the insert itself
\* failed, and the analysis_result of that record is the raw-response wrapper
\* holding the original text.
C11_UnparseableReplyPersisted ==
    \A r \in Runs :
        runs[r].pc = "done" =>
            \A i \in DOMAIN runs[r].tasks :
                LET t == runs[r].tasks[i]
                IN (Unparseable(t.answer) /\ t.saved # "failed") =>
                       \E d \in BagToSet(CollectionOf(runs[r].kind)) :
                           /\ d.by = r
                           /\ d.analysis_type = TypeOfTask(t)
                           /\ IsRawWrapperOf(d.analysis_result, AiResponse(t.answer))

\* the individual tasks of a daily run whose agent call returned a non-empty payload
Succeeded(run) == {i \in 1..(Len(run.tasks) - 1) : GotPayload(run.tasks[i])}

\* C13: the summary a daily run over N portfolios returns lists exactly the
\* results of the individual tasks whose agent call returned a non-empty
\* payload (N-k of them when the k others failed), each with its index, its
\* portfolio and its payload; its aggregate result is what the aggregate
\* task's call returned, whatever the individual tasks did; news_count and
\* portfolio_count are the lengths of the fetched news and portfolios.
C13_SummaryCounts ==
    \A r \in DailyRuns :
        runs[r].pc = "done" =>
            LET run == runs[r]
                n == Len(run.tasks) - 1
                agg == run.tasks[n + 1]
                listed == run.summary.individual_results
            IN /\ run.summary.returned
               /\ Len(listed) = Cardinality(Succeeded(run))
               /\ Len(listed) = n - Cardinality((1..n) \ Succeeded(run))
               /\ {listed[k].portfolio_index : k \in 1..Len(listed)} = Succeeded(run)
               /\ \A k \in 1..Len(listed) :
                     LET t == run.tasks[listed[k].portfolio_index]
                     IN /\ listed[k].portfolio = t.portfolio
                        /\ DictGet(listed[k], "analysis", PyNone) = t.c.result
               /\ run.summary.all_portfolio_result =
                     (IF agg.c.st = "returned" THEN agg.c.result ELSE PyNone)
               /\ run.summary.news_count = Len(run.news_data)
               /\ run.summary.portfolio_count = Len(run.portfolios_data)
               /\ run.summary.portfolio_count = n

\* C13, witness: two portfolios and one news article; the first task's call
\* failed, the second task got a payload but its insert failed, the aggregate
\* task got a payload: the summary lists one individual result.
C13_Witness ==
    /\ runs["r1"].kind = "daily" /\ runs["r1"].pc = "done"
    /\ Len(runs["r1"].tasks) = 3
    /\ runs["r1"].tasks[1].c.result = PyNone
    /\ GotPayload(runs["r1"].tasks[2]) /\ runs["r1"].tasks[2].saved = "failed"
    /\ GotPayload(runs["r1"].tasks[3])
    /\ Len(runs["r1"].summary.individual_results) = 1
    /\ runs["r1"].summary.news_count = 1
    /\ runs["r1"].summary.portfolio_count = 2

----------------------------------------------------------------------------
(* The result collections *)

\* C14: whatever step the app takes (a trigger, a step of a run, also of one
\* that aborts or whose tasks fail, a read of a status endpoint), every record
\* of daily_analysis and of news_analysis is still there afterwards,
\* unchanged and as many times as before: records are only added.
C14_AppendOnly ==
    [][/\ daily_analysis \sqsubseteq daily_analysis'
       /\ news_analysis \sqsubseteq news_analysis']_vars

\* C14, witness: a daily run has exited after adding two records to the one an
\* earlier run left, and the status endpoint has then returned all three.
C14_Witness ==
    /\ runs["r1"].kind = "daily" /\ runs["r1"].main = "exited"
    /\ BagIn(EarlierDailyDoc, daily_analysis)
    /\ BagCardinality(daily_analysis) = 3
    /\ status_response.endpoint = "daily"
    /\ status_response.status = "success"
    /\ status_response.latest = daily_analysis

\* C15: when the insert of a task's record has failed, save_analysis_to_db has
\* returned to the task (which has returned in its turn: nothing was raised),
\* the run is neither aborted nor failed, the records its sibling tasks
\* inserted are in the collection, every task that has not finished can take
\* its next step, and the run ends with all its tasks returned.
C15_FailedInsertContained ==
    \A r \in Runs : \A i \in DOMAIN runs[r].tasks :
        runs[r].tasks[i].saved = "failed" =>
            /\ runs[r].tasks[i].pc = "returned"
            /\ runs[r].pc \in {"dispatched", "collected", "done"}
            /\ \A j \in DOMAIN runs[r].tasks :
                  LET t == runs[r].tasks[j]
                  IN /\ (runs[r].kind = "daily" /\ t.saved = "ok") =>
                            BagIn(DocOfTask(r, t), daily_analysis)
                     /\ (runs[r].pc = "dispatched" /\ t.pc = "call") =>
                            ENABLED TaskAttempt(r, j)
                     /\ (runs[r].pc = "dispatched" /\ t.pc = "save") =>
                            ENABLED TaskSave(r, j)
                     /\ runs[r].pc \in {"collected", "done"} => t.pc = "returned"
            /\ (runs[r].pc = "dispatched" /\ AllFinished(runs[r].tasks)) =>
                  ENABLED Collect(r)

\* C15, witness: a daily run over two portfolios has exited; the insert of the
\* second task failed, the first task and the aggregate task, which saved
\* before and after it, have their records in daily_analysis.
C15_Witness ==
    /\ runs["r1"].kind = "daily" /\ runs["r1"].main = "exited"
    /\ Len(runs["r1"].tasks) = 3
    /\ runs["r1"].tasks[2].saved = "failed"
    /\ runs["r1"].tasks[1].saved = "ok" /\ runs["r1"].tasks[3].saved = "ok"
    /\ BagCardinality(daily_analysis) = 2
    /\ runs["r1"].summary.returned

----------------------------------------------------------------------------
(* fetch_last_24h_news *)

\* C17: fetch_last_24h_news returns the articles whose created_at is at or
\* after the clock minus 24 hours, each of them once and no other, the more
\* recent ones first: the empty list when there is none; and the empty list
\* when the read of the collection fails.
C17_WindowFetch ==
    window.called =>
        IF window.readError
        THEN window.list = <<>>
        ELSE LET recent == {d \in news : d.created_at >= now - 24}
             IN /\ Range(window.list) = recent
                /\ Len(window.list) = Cardinality(recent)
                /\ \A i, j \in 1..Len(window.list) :
                      i < j => window.list[i].created_at >= window.list[j].created_at
                /\ recent = {} => window.list = <<>>

\* C17, witness: of three articles, 25 hours, exactly 24 hours and 1 hour old,
\* the fetch returned the last two, the 1 hour old one first.
C17_Witness ==
    /\ window.called /\ ~window.readError
    /\ news = {NewsDoc("a", now - 25), NewsDoc("b", now - 24), NewsDoc("a", now - 1)}
    /\ window.list = <<NewsDoc("a", now - 1), NewsDoc("b", now - 24)>>

----------------------------------------------------------------------------
(* save_analysis_to_db: the two readings of the clock *)

\* C19: the date of every record of daily_analysis and of news_analysis is a
\* midnight, a whole number of days on the clock, at whatever hour the record
\* was saved.
C19_DateIsMidnight ==
    /\ \A d \in BagToSet(daily_analysis) : d.date % 24 = 0
    /\ \A d \in BagToSet(news_analysis) : d.date % 24 = 0

\* C19, witness: a record saved at 23:00 carries the midnight 23 hours before.
C19_Witness ==
    \E d \in BagToSet(daily_analysis) :
        /\ d.created_at % 24 = 23
        /\ d.date = d.created_at - 23

----------------------------------------------------------------------------
(* The runs: their inputs and their phases *)

\* the fetches of a run, in the order of the code
ExpectedFetches(kind) ==
    IF kind = "daily" THEN <<"news", "portfolios", "filings">>
    ELSE <<"news", "portfolios">>
IsPrefix(a, b) == Len(a) <= Len(b) /\ \A i \in 1..Len(a) : a[i] = b[i]

\* C16: a run fetches each of its inputs at most once, in the order news,
\* portfolios, filings (a news run has no filings to fetch); once the run is
\* past its fetches, and so whenever it has tasks and before any of them has
\* sent a request, all of them were fetched exactly once; and every task was
\* given the news and the filings that the run fetched.
C16_FetchOnceBeforeDispatch ==
    \A r \in Runs :
        runs[r].main # "absent" =>
            /\ IsPrefix(runs[r].fetches, ExpectedFetches(runs[r].kind))
            /\ runs[r].pc \in {"inputs_fetched", "dispatched", "collected", "done",
                               "aborted"} =>
                  runs[r].fetches = ExpectedFetches(runs[r].kind)
            /\ runs[r].tasks # <<>> =>
                  /\ runs[r].fetches = ExpectedFetches(runs[r].kind)
                  /\ runs[r].pc \in {"dispatched", "collected", "done", "raised"}
            /\ \A i \in DOMAIN runs[r].tasks :
                  /\ runs[r].tasks[i].news_data = runs[r].news_data
                  /\ runs[r].tasks[i].filings_data = runs[r].filings_data

\* C16, witness: a daily run over two portfolios whose first task is at its
\* second attempt; all three tasks carry the one article and the filing of
\* NFLX that the run fetched.
C16_Witness ==
    /\ runs["r1"].kind = "daily" /\ runs["r1"].pc = "dispatched"
    /\ Len(runs["r1"].tasks) = 3
    /\ runs["r1"].tasks[1].c.attempt = 1
    /\ Len(runs["r1"].news_data) = 1
    /\ "NFLX" \in DOMAIN runs["r1"].filings_data
    /\ runs["r1"].filings_data["NFLX"] = "8-K text"
    /\ \A i \in 1..3 :
          /\ runs["r1"].tasks[i].news_data = runs["r1"].news_data
          /\ runs["r1"].tasks[i].filings_data = runs["r1"].filings_data

\* the phase of a run, from where its code is
Phase(pc) ==
    CASE pc = "idle" -> "NOT_STARTED"
      [] pc \in {"fetch_news", "fetch_portfolios", "fetch_filings"} -> "STARTED"
      [] pc = "inputs_fetched" -> "INPUTS_FETCHED"
      [] pc = "dispatched" -> "DISPATCHED"
      [] pc = "collected" -> "COLLECTED"
      [] pc = "done" -> "DONE"
      [] pc = "aborted" -> "ABORTED"
      [] OTHER -> "FAILED"
\* the number of tasks of a run over its portfolios
AllTasks(run) == IF run.kind = "daily" THEN Len(run.portfolios_data) + 1 ELSE 1

\* C20: a step of a run that changes its phase goes from STARTED to
\* INPUTS_FETCHED, from there to DISPATCHED, then to COLLECTED, then to DONE,
\* or from INPUTS_FETCHED to ABORTED, and nowhere else; it goes to ABORTED
\* only with no portfolio fetched, and to DISPATCHED only with at least one,
\* whether or not any news was fetched, and then with all the tasks created.
C20_PhaseOrder ==
    [][\A r \in Runs :
          LET from == Phase(runs[r].pc)
              to == Phase(runs'[r].pc)
          IN from # to =>
                \/ from = "NOT_STARTED" /\ to = "STARTED"
                \/ from = "STARTED" /\ to = "INPUTS_FETCHED"
                \/ /\ from = "INPUTS_FETCHED" /\ to = "ABORTED"
                   /\ runs[r].portfolios_data = <<>>
                \/ /\ from = "INPUTS_FETCHED" /\ to = "DISPATCHED"
                   /\ runs[r].portfolios_data # <<>>
                   /\ Len(runs'[r].tasks) = AllTasks(runs[r])
                \/ from = "DISPATCHED" /\ to = "COLLECTED"
                \/ from = "COLLECTED" /\ to = "DONE"]_vars

\* C20, witness: a daily run that fetched no news and two portfolios has gone
\* on to create its three tasks and has returned its summary.
C20_Witness ==
    /\ runs["r1"].kind = "daily" /\ runs["r1"].pc = "done"
    /\ runs["r1"].fetches = <<"news", "portfolios", "filings">>
    /\ runs["r1"].news_data = <<>>
    /\ Len(runs["r1"].portfolios_data) = 2
    /\ Len(runs["r1"].tasks) = 3
    /\ runs["r1"].summary.news_count = 0


----------------------------------------------------------------------------
(* Two runs at the same time *)

Started == {r \in Runs : runs[r].analysis_id # NoId}
Records == BagToSet(daily_analysis) \cup BagToSet(news_analysis)
\* a run that has not exited can take its next step, whatever the other run does
NotBlocked ==
    \A r \in Runs :
        runs[r].main \in {"scheduled", "running", "finally"} => ENABLED RunStep(r)
HoldersOf(id) == {r \in Runs : runs[r].analysis_id = id}

----------------------------------------------------------------------------
(* What the persisted analysis_result holds *)

FieldOf(result, key) == IF result.t = "dict" THEN DictGet(result, key, PyNone) ELSE PyNone
HasInsights(result) == Truthy(FieldOf(result, "key_insights"))
HasRawText(result) ==
    FieldOf(result, "raw_response") # PyNone \/ FieldOf(result, "parse_error") # PyNone

\* C22: the analysis_result of a persisted record is a structured result or a
\* raw-text fallback with its parse error, never both: no record has non-empty
\* key_insights together with a raw_response or a parse_error that is not null.
C22_StructuredOrRaw ==
    \A d \in Records : ~(HasInsights(d.analysis_result) /\ HasRawText(d.analysis_result))

\* the records of both collections that run r inserted, counted with repetition
InsertedTotal(r) ==
    LET coll == daily_analysis (+) news_analysis
        docs == {d \in BagToSet(coll) : d.by = r}
    IN BagCardinality([d \in docs |-> CopiesIn(d, coll)])
Finished(t) == t.pc \in {"returned", "raised"}

\* C23: a task whose agent call returned None or an empty payload, or raised,
\* inserts no record and calls no insert; a task whose agent call returned a
\* non-empty payload calls insert_one exactly once; the records of a run are
\* those of its tasks whose insert succeeded.
C23_PersistedIffPayload ==
    \A r \in Runs :
        /\ \A t \in Range(runs[r].tasks) :
              /\ t.inserts <= 1
              /\ ~(t.c.st = "returned" /\ Truthy(t.c.result)) =>
                    t.inserts = 0 /\ t.saved = "no"
              /\ (Finished(t) /\ GotPayload(t)) => t.inserts = 1
        /\ InsertedTotal(r) =
              Cardinality({i \in DOMAIN runs[r].tasks : runs[r].tasks[i].saved = "ok"})

----------------------------------------------------------------------------
(* The delays of a call *)

IsFinalAttempt(attempt) == attempt = max_retries - 1
\* the seconds slept after each kind of failed attempt, 0 for no sleep
DelayAfterNon2xx(reply) ==
    CASE reply.kind = "timeout" -> 10
      [] reply.kind = "connect_error" -> 5
      [] IsNon2xx(reply) -> 5
      [] OTHER -> 0
DelayAfterNon200(reply) ==
    CASE reply.kind = "timeout" -> 10
      [] reply.kind = "connect_error" -> 5
      [] IsNon200(reply) -> 5
      [] OTHER -> 0
\* the event after event k of the trace is a sleep of secs seconds (no sleep
\* for 0), and every sleep directly follows the POST of its attempt
FollowedBySleep(k, secs) ==
    IF secs = 0
    THEN k = Len(trace) \/ trace[k + 1].e = "post"
    ELSE k < Len(trace) /\ trace[k + 1] = SleepEvent(trace[k].attempt, secs)
SleepsFollowPosts ==
    \A k \in DOMAIN trace : trace[k].e = "sleep" => (k > 1 /\ trace[k - 1].e = "post")

\* C24: a delay happens only after a failed attempt that is not the final one,
\* before the next attempt: 10 seconds after a timeout, 5 after a connection
\* error, 5 after a non-2xx status; none after the final attempt, none after a
\* successful attempt.
C24_BackoffAfterNon2xx ==
    /\ SleepsFollowPosts
    /\ \A k \in DOMAIN trace : trace[k].e = "post" =>
          FollowedBySleep(k, IF IsFinalAttempt(trace[k].attempt) THEN 0
                             ELSE DelayAfterNon2xx(trace[k].reply))

\* C24, amended: the same, with 5 seconds after every status other than 200,
\* a 2xx status other than 200 included.
C24_BackoffAfterNon200 ==
    /\ SleepsFollowPosts
    /\ \A k \in DOMAIN trace : trace[k].e = "post" =>
          FollowedBySleep(k, IF IsFinalAttempt(trace[k].attempt) THEN 0
                             ELSE DelayAfterNon200(trace[k].reply))

\* C24, witness: a call that slept 10 seconds after a timeout, 5 seconds after
\* a 201, and ended with its final attempt, a connection error, without a sleep.
C24_Witness ==
    /\ CallEnded /\ Len(Posts) = max_retries
    /\ Posts[1].reply.kind = "timeout" /\ Posts[2].reply.status = 201
    /\ Posts[3].reply.kind = "connect_error"
    /\ Sleeps = <<SleepEvent(0, 10), SleepEvent(1, 5)>>

----------------------------------------------------------------------------
(* The summary of a run against the records it inserted *)

\* C25: when a daily run has ended, its summary lists as many individual
\* results as the run inserted individual records, and reports an aggregate
\* result only if the aggregate record was inserted, also when an insert failed.
C25_SummaryMatchesRecords ==
    \A r \in DailyRuns :
        runs[r].pc = "done" =>
            /\ Len(runs[r].summary.individual_results) =
                  InsertedBy(daily_analysis, r, "portfolio")
            /\ Truthy(runs[r].summary.all_portfolio_result) =>
                  InsertedBy(daily_analysis, r, "all_portfolios") = 1

\* C26: in every persisted record, date is the midnight of the day of
\* created_at: date <= created_at < date + 1 day.
C26_DateOfCreationDay ==
    \A d \in Records :
        /\ d.date <= d.created_at
        /\ d.created_at < d.date + HoursPerDay

----------------------------------------------------------------------------
(* The requests of the agent calls of a run *)

\* the tasks of run r whose agent call has built its payload
Called(r) == {i \in DOMAIN runs[r].tasks : runs[r].tasks[i].sent # {}}

\* C27: all the attempts of one agent call post the same request, the
\* session_id and the message built before the first attempt; the session_ids
\* of two tasks of one run (portfolio_i, portfolio_j, all_portfolios) differ.
C27_OneRequestPerCall ==
    \A r \in Runs :
        /\ \A i \in Called(r) :
              LET t == runs[r].tasks[i]
              IN /\ t.sent = {t.payload}
                 /\ t.payload.session_id.analysis_type = AnalysisTypeArg(t.type, t.index)
                 /\ t.payload.message =
                       (IF t.type = "news" THEN NewsMessage(t.news_data)
                        ELSE DailyMessage(t.portfolio, t.news_data, t.filings_data))
        /\ \A i \in Called(r), j \in Called(r) :
              i # j => runs[r].tasks[i].payload.session_id
                          # runs[r].tasks[j].payload.session_id

\* C27, witness: in a daily run, a call entered an hour ago is about to make
\* its third attempt, and the call of the other task has posted its request
\* with a session_id of the same hour.
C27_Witness ==
    /\ runs["r1"].kind = "daily" /\ Called("r1") = {1, 2}
    /\ runs["r1"].tasks[1].c.attempt = 2
    /\ runs["r1"].tasks[1].payload.session_id.ts = now - 1
    /\ runs["r1"].tasks[2].payload.session_id.ts = now - 1

----------------------------------------------------------------------------
(* An exception that is neither a timeout nor a connection error *)

\* the POST raised another exception of the transport, or the body of an
\* HTTP 200 answer is not JSON, or is JSON that is no object
IsOtherException(reply) ==
    \/ reply.kind = "other_error"
    \/ IsOk200(reply) /\ reply.body \in {"invalid", "array"}

\* C28: an exception on any attempt that is neither a timeout nor a connection
\* error ends the call at once: no attempt and no delay follows it, and the
\* call returns None without raising.
C28_OtherExceptionEndsCall ==
    \A k \in DOMAIN trace :
        (trace[k].e = "post" /\ IsOtherException(trace[k].reply)) =>
            /\ k = Len(trace)
            /\ call.c.st = "returned" /\ call.c.result = PyNone /\ call.c.at = "except"

\* C28, witness: after a timeout and its delay, the second attempt was answered
\* 200 with a body that is not JSON, and the call has returned None.
C28_Witness ==
    /\ Len(trace) = 3
    /\ trace[1].reply.kind = "timeout" /\ trace[2] = SleepEvent(0, 10)
    /\ trace[3].e = "post" /\ trace[3].attempt = 1
    /\ trace[3].reply = Response(200, "invalid", PyNone)
    /\ call.c.st = "returned" /\ call.c.result = PyNone

----------------------------------------------------------------------------
(* Termination *)

\* C29: a run that has started reaches the end of run_daily_analysis or of
\* run_news_analysis, done or aborted, whatever fails on the way, as long as
\* every step it waits for comes back; no task retries forever.
C29_RunTerminates ==
    \A r \in Runs :
        (runs[r].main = "running") ~> (runs[r].pc \in {"done", "aborted"})

\* C29, witness: a daily run is done after the calls of both its tasks made
\* all three attempts and failed.
C29_Witness ==
    /\ runs["r1"].kind = "daily" /\ runs["r1"].pc = "done"
    /\ Len(runs["r1"].tasks) = 2
    /\ \A t \in Range(runs["r1"].tasks) :
          t.answer = Failed("timeout") /\ t.c.result = PyNone

----------------------------------------------------------------------------
(* The background task of a trigger endpoint *)

Triggered == {r \in Runs : runs[r].main \in {"scheduled", "running", "finally", "exited"}}
\* the task of run r is over: disconnect was called once, after the run ended
\* or connect raised, and no client is left open
Released(r) ==
    /\ runs[r].main = "exited"
    /\ runs[r].disconnects = 1
    /\ runs[r].client \in {"none", "closed"}
    /\ runs[r].pc \in {"idle", "done", "aborted", "raised"}

\* C30: a background run started by a trigger endpoint ends with its store
\* connection released, disconnect called exactly once and only after the run
\* ended, whether the run completed, aborted or raised, in connect or in the
\* analysis; the caller of the endpoint keeps the acknowledgment it was given.
C30_BackgroundRunReleases ==
    /\ [](\A r \in Triggered :
             /\ runs[r].ack # NoId
             /\ runs[r].main = "exited" => Released(r)
             /\ runs[r].main # "exited" => runs[r].disconnects = 0)
    /\ \A r \in Runs : (runs[r].main = "scheduled") ~> Released(r)

\* C30, witness: connect raised after it had created the client, the analysis
\* never began, and the task has closed the client and ended.
C30_Witness ==
    /\ runs["r1"].main = "exited" /\ runs["r1"].pc = "idle"
    /\ runs["r1"].client = "closed" /\ runs["r1"].disconnects = 1
    /\ runs["r1"].ack # NoId
====
